---- MODULE Spec2Model ----
(***************************************************************************)
(* Outbound message dispatch of a snarkOS node                             *)
(* (network/src/outbound/outbound.rs).                                     *)
(*                                                                         *)
(* Producers call Outbound::send_request / Node::send_ping; the call looks *)
(* the peer's Sender up in the channel registry and try_sends on a bounded *)
(* tokio mpsc queue.  One writer task per connection                       *)
(* (Node::listen_for_outbound_messages) receives from the queue, calls     *)
(* write_message and bumps one of the two atomic counters.                 *)
(*                                                                         *)
(* The connection-lifecycle collaborator (registry insert/remove, writer   *)
(* task shutdown), the sync layer and the peer book are not part of the    *)
(* file; they are modelled as environment actions.                         *)
(***************************************************************************)
EXTENDS Naturals, Sequences, FiniteSets

(* ------------------------------ bounds -------------------------------- *)
NumPeers == 2
NumProducers == 2
MaxConns == 2
Capacity == 2
MaxMsgs == 3
MaxHeight == 1

Peers == 1..NumPeers
Producers == 1..NumProducers
Chans == 1..MaxConns

NoChan == 0
NoMsg == [receiver |-> 0, payload |-> <<"None", 0>>, id |-> 0]
NoSync == <<>>

(* Payload variants used by the model: Payload::Ping(height) and one other *)
(* protocol payload.                                                       *)
Ping(h) == <<"Ping", h>>
Block == <<"Block", 0>>

(* Message::new(Direction::Outbound(addr), payload); id is the tag that    *)
(* tells two sends of equal payloads apart.                                *)
Message(a, pl, n) == [receiver |-> a, payload |-> pl, id |-> n]

(* What send_request leaves behind when it returns: the arm it took and    *)
(* the request and target address its warn!/error! line prints.            *)
Logged(k, m) == [kind |-> k, request |-> m]

VARIABLES
  channels,            \* Outbound.channels: address -> Sender (channel id) or NoChan
  send_success_count,  \* Outbound.send_success_count
  send_failure_count,  \* Outbound.send_failure_count
  queue,               \* per channel: the messages resident in the bounded queue
  wpc,                 \* per channel: position of its writer task
  writing,             \* per channel: the message inside write_message, or NoMsg
  ppc,                 \* per producer: position inside send_request
  req,                 \* per producer: the request being sent
  handle,              \* per producer: the Sender clone returned by outbound_channel
  sync,                \* Node::sync(): <<>> for None, <<h>> for a sync layer at height h
  pingSent,            \* peer book: number of sending_ping notifications per address
  chanAddr,            \* per channel: the address its connection belongs to
  nextChan,            \* next channel id the lifecycle collaborator hands out
  nextId,              \* next message tag
  outcome,             \* the match arm the latest finished send_request ended in,
                       \* with the request it names in its log line
  enqueued,            \* per channel: messages accepted by try_send, in order
  delivered,           \* per channel: messages passed to write_message, in order
  dequeued,            \* total number of messages recv has returned
  cancelled,           \* writes abandoned because the writer task was shut down
  sawNone              \* per channel: recv has returned None

vars == <<channels, send_success_count, send_failure_count, queue, wpc, writing,
          ppc, req, handle, sync, pingSent, chanAddr, nextChan, nextId, outcome,
          enqueued, delivered, dequeued, cancelled, sawNone>>

prodVars == <<ppc, req, handle>>
ghostSend == <<nextId, outcome, enqueued>>
writerVars == <<wpc, writing, delivered, dequeued, cancelled, sawNone>>
counters == <<send_success_count, send_failure_count>>
envVars == <<sync, pingSent, chanAddr, nextChan>>

(* Outbound::new / Default: empty registry, both counters zero; no         *)
(* connection has been made and no call is under way.                      *)
InitOutbound ==
  /\ channels = [a \in Peers |-> NoChan]
  /\ send_success_count = 0
  /\ send_failure_count = 0
  /\ queue = [c \in Chans |-> <<>>]
  /\ wpc = [c \in Chans |-> "none"]
  /\ writing = [c \in Chans |-> NoMsg]
  /\ ppc = [p \in Producers |-> "idle"]
  /\ req = [p \in Producers |-> NoMsg]
  /\ handle = [p \in Producers |-> NoChan]
  /\ pingSent = [a \in Peers |-> 0]
  /\ chanAddr = [c \in Chans |-> 0]
  /\ nextChan = 1
  /\ nextId = 1
  /\ outcome = Logged("none", NoMsg)
  /\ enqueued = [c \in Chans |-> <<>>]
  /\ delivered = [c \in Chans |-> <<>>]
  /\ dequeued = 0
  /\ cancelled = 0
  /\ sawNone = [c \in Chans |-> FALSE]

(* A node without a sync layer (the peering tests the comment in          *)
(* send_ping speaks of); send_request and the writer never look at it.     *)
Init == InitOutbound /\ sync = NoSync

(* A node with or without a sync layer, whose chain is at some height.     *)
InitPing == InitOutbound /\ sync \in {NoSync} \cup {<<h>> : h \in 1..MaxHeight}

(* Variant of the height read that is one block ahead of the sync layer.   *)
CurrentBlockHeight_OneAhead == IF sync = NoSync THEN 0 ELSE sync[1] + 1

(* The sync collaborator: Node::sync() is an Option; absent means 0.       *)
CurrentBlockHeight == IF sync = NoSync THEN 0 ELSE sync[1]

(* Live Sender handles of channel c: the registry's entry plus the clones  *)
(* held by send_request calls between outbound_channel and the end of the  *)
(* call.                                                                   *)
Senders(c) ==
  Cardinality({a \in Peers : channels[a] = c})
    + Cardinality({p \in Producers : handle[p] = c})

(* The Receiver of channel c has been dropped (its writer task is gone).   *)
RxClosed(c) == wpc[c] = "aborted"

(* Variant of outbound_channel that falls back to the first connection's   *)
(* channel when the address has no entry.                                  *)
outbound_channel_Fallback(a) ==
  IF channels[a] # NoChan THEN channels[a]
  ELSE IF nextChan > 1 THEN 1 ELSE NoChan

(* Outbound::outbound_channel: channels.get(&remote_address), NoChan for   *)
(* Err(OutboundChannelMissing).                                            *)
outbound_channel(a) == channels[a]

(* Variants of try_send with a plausible slip each: the capacity test off  *)
(* by one in either direction, and the closed test left out.               *)
try_send_LetsOneMoreIn(c) ==
  IF RxClosed(c) THEN "closed"
  ELSE IF Len(queue[c]) > Capacity THEN "full"
  ELSE "enqueued"

try_send_FullOneEarly(c) ==
  IF RxClosed(c) THEN "closed"
  ELSE IF Len(queue[c]) + 1 >= Capacity THEN "full"
  ELSE "enqueued"

try_send_IgnoresClosed(c) ==
  IF Len(queue[c]) >= Capacity THEN "full" ELSE "enqueued"

(* Sender::try_send on the bounded queue: Closed when the receiver is      *)
(* gone, Full when no slot is free, Ok otherwise.                          *)
try_send(c) ==
  IF RxClosed(c) THEN "closed"
  ELSE IF Len(queue[c]) >= Capacity THEN "full"
  ELSE "enqueued"

(* ----------------------------- producers ------------------------------ *)

(* send_request up to the enqueue attempt: the receiver is read off the    *)
(* request and the registry is asked for its channel.  Err(_) ends the     *)
(* call (warn "peer is disconnected", the request is dropped); Ok(channel) *)
(* leaves the caller holding a Sender clone.                               *)
Lookup(p, m) ==
  /\ ppc[p] = "idle"
  /\ nextId <= MaxMsgs
  /\ nextId' = nextId + 1
  /\ LET c == outbound_channel(m.receiver) IN
       IF c = NoChan
       THEN /\ outcome' = Logged("missing", m)
            /\ UNCHANGED <<ppc, req, handle>>
       ELSE /\ outcome' = outcome
            /\ handle' = [handle EXCEPT ![p] = c]
            /\ req' = [req EXCEPT ![p] = m]
            /\ ppc' = [ppc EXCEPT ![p] = "try_send"]
  /\ UNCHANGED <<channels, counters, queue, writerVars, enqueued>>

(* A protocol handler calls send_request with some non-ping payload.       *)
SendRequest(p, a) ==
  /\ Lookup(p, Message(a, Block, nextId))
  /\ UNCHANGED envVars

(* Variant of send_ping that tells the peer book only about pings to peers *)
(* that have a channel.                                                    *)
send_ping_NotifiesConnected(p, a) ==
  /\ pingSent' = [pingSent EXCEPT ![a] =
                    IF channels[a] # NoChan THEN @ + 1 ELSE @]
  /\ Lookup(p, Message(a, Ping(CurrentBlockHeight), nextId))
  /\ UNCHANGED <<sync, chanAddr, nextChan>>

(* Node::send_ping: read the height, notify the peer book, send_request.   *)
send_ping(p, a) ==
  /\ pingSent' = [pingSent EXCEPT ![a] = @ + 1]
  /\ Lookup(p, Message(a, Ping(CurrentBlockHeight), nextId))
  /\ UNCHANGED <<sync, chanAddr, nextChan>>

(* Variant of the enqueue attempt that waits for a free slot (send().await *)
(* in place of try_send).                                                  *)
TrySend_WaitsForRoom(p) ==
  /\ ppc[p] = "try_send"
  /\ try_send(handle[p]) # "full"
  /\ LET c == handle[p]
         r == try_send(c) IN
       /\ outcome' = Logged(r, req[p])
       /\ IF r = "enqueued"
          THEN /\ queue' = [queue EXCEPT ![c] = Append(@, req[p])]
               /\ enqueued' = [enqueued EXCEPT ![c] = Append(@, req[p].id)]
          ELSE UNCHANGED <<queue, enqueued>>
  /\ handle' = [handle EXCEPT ![p] = NoChan]
  /\ ppc' = [ppc EXCEPT ![p] = "idle"]
  /\ req' = [req EXCEPT ![p] = NoMsg]
  /\ UNCHANGED <<channels, counters, writerVars, envVars, nextId>>

(* Variant of the enqueue attempt that takes a closed channel's entry out  *)
(* of the registry.                                                        *)
TrySend_EvictsClosed(p) ==
  /\ ppc[p] = "try_send"
  /\ LET c == handle[p]
         r == try_send(c) IN
       /\ outcome' = Logged(r, req[p])
       /\ IF r = "enqueued"
          THEN /\ queue' = [queue EXCEPT ![c] = Append(@, req[p])]
               /\ enqueued' = [enqueued EXCEPT ![c] = Append(@, req[p].id)]
          ELSE UNCHANGED <<queue, enqueued>>
       /\ channels' = IF r = "closed"
                      THEN [a \in Peers |->
                              IF channels[a] = c THEN NoChan ELSE channels[a]]
                      ELSE channels
  /\ handle' = [handle EXCEPT ![p] = NoChan]
  /\ ppc' = [ppc EXCEPT ![p] = "idle"]
  /\ req' = [req EXCEPT ![p] = NoMsg]
  /\ UNCHANGED <<counters, writerVars, envVars, nextId>>

(* Variant of the enqueue attempt that counts a dropped request as a       *)
(* failure.                                                                *)
TrySend_CountsDrops(p) ==
  /\ ppc[p] = "try_send"
  /\ LET c == handle[p]
         r == try_send(c) IN
       /\ outcome' = Logged(r, req[p])
       /\ IF r = "enqueued"
          THEN /\ queue' = [queue EXCEPT ![c] = Append(@, req[p])]
               /\ enqueued' = [enqueued EXCEPT ![c] = Append(@, req[p].id)]
               /\ UNCHANGED send_failure_count
          ELSE /\ UNCHANGED <<queue, enqueued>>
               /\ send_failure_count' = send_failure_count + 1
  /\ handle' = [handle EXCEPT ![p] = NoChan]
  /\ ppc' = [ppc EXCEPT ![p] = "idle"]
  /\ req' = [req EXCEPT ![p] = NoMsg]
  /\ UNCHANGED <<channels, send_success_count, writerVars, envVars, nextId>>

(* send_request, the enqueue attempt (channel.try_send(request)) and the   *)
(* return; the Sender clone is dropped when the call ends.                 *)
TrySend(p) ==
  /\ ppc[p] = "try_send"
  /\ LET c == handle[p]
         r == try_send(c) IN
       /\ outcome' = Logged(r, req[p])
       /\ IF r = "enqueued"
          THEN /\ queue' = [queue EXCEPT ![c] = Append(@, req[p])]
               /\ enqueued' = [enqueued EXCEPT ![c] = Append(@, req[p].id)]
          ELSE \* Full: warn, Closed: error; the request is dropped
               UNCHANGED <<queue, enqueued>>
  /\ handle' = [handle EXCEPT ![p] = NoChan]
  /\ ppc' = [ppc EXCEPT ![p] = "idle"]
  /\ req' = [req EXCEPT ![p] = NoMsg]
  /\ UNCHANGED <<channels, counters, writerVars, envVars, nextId>>

(* ---------------------------- writer task ----------------------------- *)

(* Variant of recv that hands out the newest message first.                *)
recv_Newest(q) == [message |-> q[Len(q)], rest |-> SubSeq(q, 1, Len(q) - 1)]

(* Variant of recv that hands the oldest message out and leaves it queued. *)
recv_Peek(q) == [message |-> Head(q), rest |-> q]

(* Receiver::recv on a non-empty queue: the oldest message comes out.      *)
recv(q) == [message |-> Head(q), rest |-> Tail(q)]

(* receiver.recv() returns Some(message): the head of the queue; the task  *)
(* goes straight into writer.write_message(&message.payload).              *)
WriterRecv(c) ==
  /\ wpc[c] = "recv"
  /\ queue[c] # <<>>
  /\ writing' = [writing EXCEPT ![c] = recv(queue[c]).message]
  /\ queue' = [queue EXCEPT ![c] = recv(queue[c]).rest]
  /\ delivered' = [delivered EXCEPT ![c] = Append(@, recv(queue[c]).message.id)]
  /\ dequeued' = dequeued + 1
  /\ wpc' = [wpc EXCEPT ![c] = "write"]
  /\ UNCHANGED <<channels, counters, prodVars, envVars, ghostSend,
                 cancelled, sawNone>>

(* receiver.recv() returns None (queue empty, every Sender dropped): the   *)
(* `if let Some` has no else branch, so the loop goes round to recv again. *)
RecvNone(c) ==
  /\ wpc[c] = "recv"
  /\ queue[c] = <<>>
  /\ Senders(c) = 0
  /\ sawNone' = [sawNone EXCEPT ![c] = TRUE]
  /\ wpc' = [wpc EXCEPT ![c] = "recv"]
  /\ UNCHANGED <<channels, counters, queue, writing, prodVars, envVars,
                 ghostSend, delivered, dequeued, cancelled>>

(* Variant of the write arms in which the Err arm forgets its counter.     *)
WriteDone_ErrUncounted(c, ok) ==
  /\ wpc[c] = "write"
  /\ IF ok
     THEN /\ send_success_count' = send_success_count + 1
          /\ UNCHANGED send_failure_count
     ELSE UNCHANGED <<send_success_count, send_failure_count>>
  /\ writing' = [writing EXCEPT ![c] = NoMsg]
  /\ wpc' = [wpc EXCEPT ![c] = "recv"]
  /\ UNCHANGED <<channels, queue, prodVars, envVars, ghostSend, delivered,
                 dequeued, cancelled, sawNone>>

(* Variant of the write arms in which the task gives up after an Err.      *)
WriteDone_StopsOnErr(c, ok) ==
  /\ wpc[c] = "write"
  /\ IF ok
     THEN /\ send_success_count' = send_success_count + 1
          /\ UNCHANGED send_failure_count
     ELSE /\ send_failure_count' = send_failure_count + 1
          /\ UNCHANGED send_success_count
  /\ writing' = [writing EXCEPT ![c] = NoMsg]
  /\ wpc' = [wpc EXCEPT ![c] = IF ok THEN "recv" ELSE "done"]
  /\ UNCHANGED <<channels, queue, prodVars, envVars, ghostSend, delivered,
                 dequeued, cancelled, sawNone>>

(* write_message returns: Ok bumps send_success_count, Err bumps           *)
(* send_failure_count; either way the loop goes back to recv.  The         *)
(* counters are AtomicU64: fetch_add wraps at 2^64, which no run within    *)
(* MaxMsgs dequeues comes near.                                            *)
WriteDone(c, ok) ==
  /\ wpc[c] = "write"
  /\ IF ok
     THEN /\ send_success_count' = send_success_count + 1
          /\ UNCHANGED send_failure_count
     ELSE /\ send_failure_count' = send_failure_count + 1
          /\ UNCHANGED send_success_count
  /\ writing' = [writing EXCEPT ![c] = NoMsg]
  /\ wpc' = [wpc EXCEPT ![c] = "recv"]
  /\ UNCHANGED <<channels, queue, prodVars, envVars, ghostSend, delivered,
                 dequeued, cancelled, sawNone>>

(* ---------------------------- environment ----------------------------- *)

(* Handshake complete: a bounded queue pair is created, the Sender is put  *)
(* into the registry and the writer task is spawned on the Receiver.       *)
Connect(a) ==
  /\ channels[a] = NoChan
  /\ nextChan <= MaxConns
  /\ channels' = [channels EXCEPT ![a] = nextChan]
  /\ chanAddr' = [chanAddr EXCEPT ![nextChan] = a]
  /\ wpc' = [wpc EXCEPT ![nextChan] = "recv"]
  /\ nextChan' = nextChan + 1
  /\ UNCHANGED <<counters, queue, writing, prodVars, sync, pingSent,
                 ghostSend, delivered, dequeued, cancelled, sawNone>>

(* Teardown, registry side: the entry (and its Sender) is removed.         *)
Disconnect(a) ==
  /\ channels[a] # NoChan
  /\ channels' = [channels EXCEPT ![a] = NoChan]
  /\ UNCHANGED <<counters, queue, writerVars, prodVars, envVars, ghostSend>>

(* Teardown, task side: the writer task is shut down at one of its await   *)
(* points; dropping the Receiver closes the queue and discards what is     *)
(* still in it.                                                            *)
AbortWriter(c) ==
  /\ wpc[c] \in {"recv", "write"}
  /\ cancelled' = IF wpc[c] = "write" THEN cancelled + 1 ELSE cancelled
  /\ wpc' = [wpc EXCEPT ![c] = "aborted"]
  /\ writing' = [writing EXCEPT ![c] = NoMsg]
  /\ queue' = [queue EXCEPT ![c] = <<>>]
  /\ UNCHANGED <<channels, counters, prodVars, envVars, ghostSend,
                 delivered, dequeued, sawNone>>

(* What goes on around the producers: writer tasks and connection         *)
(* lifecycle.                                                              *)
Background ==
  \/ \E c \in Chans : WriterRecv(c)
  \/ \E c \in Chans : RecvNone(c)
  \/ \E c \in Chans, ok \in BOOLEAN : WriteDone(c, ok)
  \/ \E a \in Peers : Connect(a)
  \/ \E a \in Peers : Disconnect(a)
  \/ \E c \in Chans : AbortWriter(c)

(* Protocol handlers dispatching through send_request.                     *)
Next ==
  \/ \E p \in Producers, a \in Peers : SendRequest(p, a)
  \/ \E p \in Producers : TrySend(p)
  \/ Background

Spec == Init /\ [][Next]_vars

(* The liveness pinger dispatching through send_ping.                      *)
NextPing ==
  \/ \E p \in Producers, a \in Peers : send_ping(p, a)
  \/ \E p \in Producers : TrySend(p)
  \/ Background

SpecPing == InitPing /\ [][NextPing]_vars

(* A writer task that is ready to run is run: a message waiting in the     *)
(* queue of a task blocked in recv wakes it, and a write_message that has  *)
(* been started returns.                                                   *)
WriterFairness ==
  \A c \in Chans :
    /\ WF_vars(WriterRecv(c))
    /\ WF_vars(\E ok \in BOOLEAN : WriteDone(c, ok))

SpecLive == Spec /\ WriterFairness

(* Both entry points together: any producer may call send_request or       *)
(* send_ping.                                                              *)
NextAll ==
  \/ \E p \in Producers, a \in Peers : SendRequest(p, a)
  \/ \E p \in Producers, a \in Peers : send_ping(p, a)
  \/ \E p \in Producers : TrySend(p)
  \/ Background

SpecAll == Init /\ [][NextAll]_vars

(* The capacity test of the spec's section 8: peer 1 is mapped to the      *)
(* empty queue of channel 1 and the consumer of that queue has not been    *)
(* started yet.                                                            *)
InitScenario ==
  /\ channels = [a \in Peers |-> IF a = 1 THEN 1 ELSE NoChan]
  /\ send_success_count = 0
  /\ send_failure_count = 0
  /\ queue = [c \in Chans |-> <<>>]
  /\ wpc = [c \in Chans |-> "none"]
  /\ writing = [c \in Chans |-> NoMsg]
  /\ ppc = [p \in Producers |-> "idle"]
  /\ req = [p \in Producers |-> NoMsg]
  /\ handle = [p \in Producers |-> NoChan]
  /\ sync = NoSync
  /\ pingSent = [a \in Peers |-> 0]
  /\ chanAddr = [c \in Chans |-> IF c = 1 THEN 1 ELSE 0]
  /\ nextChan = 2
  /\ nextId = 1
  /\ outcome = Logged("none", NoMsg)
  /\ enqueued = [c \in Chans |-> <<>>]
  /\ delivered = [c \in Chans |-> <<>>]
  /\ dequeued = 0
  /\ cancelled = 0
  /\ sawNone = [c \in Chans |-> FALSE]

(* The test starts the consumer of channel c once all its sends are done.  *)
StartConsumer(c) ==
  /\ wpc[c] = "none"
  /\ chanAddr[c] # 0
  /\ nextId > MaxMsgs
  /\ \A p \in Producers : ppc[p] = "idle"
  /\ wpc' = [wpc EXCEPT ![c] = "recv"]
  /\ UNCHANGED <<channels, counters, queue, writing, prodVars, envVars,
                 ghostSend, delivered, dequeued, cancelled, sawNone>>

NextScenario ==
  \/ \E p \in Producers, a \in Peers : SendRequest(p, a)
  \/ \E p \in Producers : TrySend(p)
  \/ \E c \in Chans : StartConsumer(c)
  \/ \E c \in Chans : WriterRecv(c)
  \/ \E c \in Chans, ok \in BOOLEAN : WriteDone(c, ok)

SpecScenario == InitScenario /\ [][NextScenario]_vars

(* ------------------------------ helpers ------------------------------- *)

Ids(q) == [i \in 1..Len(q) |-> q[i].id]

IsPrefix(s, t) == Len(s) <= Len(t) /\ SubSeq(t, 1, Len(s)) = s

Range(s) == {s[i] : i \in 1..Len(s)}

(* This step is producer p's enqueue attempt and return.                   *)
TrySendStep(p) == ppc[p] = "try_send" /\ ppc'[p] = "idle"

(* This step starts a send_request addressed to a.                         *)
CallStep(a) ==
  /\ nextId' = nextId + 1
  /\ \/ outcome'.request.id = nextId /\ outcome'.request.receiver = a
     \/ \E p \in Producers : req'[p].id = nextId /\ req'[p].receiver = a

(* ------------------------------- claims ------------------------------- *)

(* C1: an enqueue attempt on an open queue that already holds Capacity     *)
(* messages drops the new message: the queue keeps its length and its      *)
(* contents (nothing queued is displaced), nothing else changes and the    *)
(* call returns, having taken the Full arm.                                *)
C1_FullQueueShedsNewest ==
  [][\A p \in Producers :
       (TrySendStep(p) /\ ~RxClosed(handle[p])
          /\ Len(queue[handle[p]]) >= Capacity)
       => /\ queue' = queue
          /\ enqueued' = enqueued
          /\ outcome' = Logged("full", req[p])
          /\ handle'[p] = NoChan
          /\ UNCHANGED <<channels, counters, writerVars>>]_vars

C1_Witness ==
  \E c \in Chans :
    /\ outcome.kind = "full"
    /\ channels[outcome.request.receiver] = c
    /\ ~RxClosed(c)
    /\ Len(queue[c]) = Capacity
    /\ outcome.request.id \notin Range(Ids(queue[c]))

(* C2: a send_request to an address without a registry entry enqueues      *)
(* nothing, leaves both counters alone and ends at once in the             *)
(* "peer is disconnected" arm; the dropped request is in no queue, with no *)
(* producer and in no writer afterwards.                                   *)
C2_StepNoEntry ==
  \A a \in Peers :
    (channels[a] = NoChan /\ CallStep(a))
    => /\ outcome'.kind = "missing"
       /\ UNCHANGED <<queue, enqueued, counters, prodVars, channels, writerVars>>

C2_NeverDelivered ==
  outcome.kind = "missing"
  => /\ \A c \in Chans :
          outcome.request.id \notin Range(enqueued[c]) \cup Range(delivered[c])
                                      \cup Range(Ids(queue[c]))
     /\ \A p \in Producers : req[p].id # outcome.request.id

C3_EntryAndRoomEnqueues ==
  [][\A p \in Producers :
       (TrySendStep(p) /\ channels[req[p].receiver] = handle[p]
          /\ Len(queue[handle[p]]) < Capacity)
       => queue'[handle[p]] = Append(queue[handle[p]], req[p])]_vars

(* C3 amended: a send to a peer whose queue is open (its Receiver not      *)
(* dropped) and below capacity is enqueued at the tail of that queue and   *)
(* no other queue changes, whatever the other peers' queues and writers    *)
(* are doing.                                                              *)
C3_OpenAndRoomEnqueues ==
  [][\A p \in Producers :
       (TrySendStep(p) /\ ~RxClosed(handle[p])
          /\ Len(queue[handle[p]]) < Capacity)
       => /\ queue' = [queue EXCEPT ![handle[p]] = Append(@, req[p])]
          /\ outcome' = Logged("enqueued", req[p])]_vars

(* B's send went in after A's queue had filled up, with A's writer not     *)
(* having taken anything from it.                                          *)
C3_Witness ==
  \E b \in Chans :
    /\ outcome.kind = "enqueued"
    /\ outcome.request.id \in Range(Ids(queue[b]))
    /\ \E a \in Chans \ {b} :
         /\ chanAddr[a] # chanAddr[b]
         /\ Len(queue[a]) = Capacity
         /\ delivered[a] = <<>>
         /\ outcome.request.id > queue[a][Capacity].id

(* C4: for every channel, what the writer has passed to write_message is   *)
(* a prefix of what try_send accepted, in the same order; while the        *)
(* Receiver lives, the accepted messages are exactly the written ones      *)
(* followed by the resident ones; and the writer holds one message at a    *)
(* time, the last one it dequeued.                                         *)
C4_PerPeerFifo ==
  \A c \in Chans :
    /\ IsPrefix(delivered[c], enqueued[c])
    /\ ~RxClosed(c) => enqueued[c] = delivered[c] \o Ids(queue[c])
    /\ (wpc[c] = "write") <=> (writing[c] # NoMsg)
    /\ wpc[c] = "write" => writing[c].id = delivered[c][Len(delivered[c])]

(* Two producers' messages were accepted with the later-tagged one first,  *)
(* and the writer took them in the order of acceptance.                    *)
C4_Witness ==
  \E c \in Chans :
    /\ Len(delivered[c]) >= 2
    /\ delivered[c][1] > delivered[c][2]
    /\ wpc[c] = "write"

(* C5 as stated: whenever no write is in progress, the two counters add up *)
(* to the number of messages dequeued.                                     *)
C5_SumEqualsDequeued ==
  (\A c \in Chans : wpc[c] # "write")
  => send_success_count + send_failure_count = dequeued

WritesInProgress == Cardinality({c \in Chans : wpc[c] = "write"})

(* This step is the return of channel c's write_message.                   *)
WriteReturnStep(c) ==
  wpc[c] = "write" /\ writing'[c] = NoMsg /\ wpc'[c] # "aborted"

C5_StepCounters ==
  /\ send_success_count' >= send_success_count
  /\ send_failure_count' >= send_failure_count
  /\ \A c \in Chans :
       WriteReturnStep(c)
       => \/ /\ send_success_count' = send_success_count + 1
             /\ send_failure_count' = send_failure_count
          \/ /\ send_failure_count' = send_failure_count + 1
             /\ send_success_count' = send_success_count
  /\ (\A c \in Chans : ~WriteReturnStep(c)) => UNCHANGED counters

(* C5 amended: every returning write adds exactly 1 to exactly one of the  *)
(* counters, nothing else changes them, neither ever decreases, and the    *)
(* two counters add up to the number of messages dequeued minus the writes *)
(* still in progress and the writes abandoned when a writer task was shut  *)
(* down in the middle of one.                                              *)
C5_CounterAccounting ==
  /\ [][C5_StepCounters]_vars
  /\ [](send_success_count + send_failure_count + WritesInProgress + cancelled
          = dequeued)

C5_Witness ==
  /\ send_success_count >= 1
  /\ send_failure_count >= 1
  /\ cancelled >= 1
  /\ WritesInProgress = 0

(* C6: when write_message fails, the writer task goes back to recv with    *)
(* the queue as it was: the failed message is not put back, and a writer   *)
(* at recv with a message waiting can take it, the oldest first.           *)
C6_StepAfterFailure ==
  \A c \in Chans :
    (WriteReturnStep(c) /\ send_failure_count' = send_failure_count + 1)
    => /\ wpc'[c] = "recv"
       /\ queue' = queue
       /\ delivered' = delivered
       /\ writing[c].id \notin Range(Ids(queue'[c]))

NoDuplicates(s) == \A i, j \in 1..Len(s) : s[i] = s[j] => i = j

C6_WriteFailureKeepsWriter ==
  /\ [][C6_StepAfterFailure]_vars
  /\ [](\A c \in Chans : NoDuplicates(delivered[c]))

(* The first write on a channel failed and the writer is on the next       *)
(* message.                                                                *)
C6_Witness ==
  \E c \in Chans :
    /\ send_failure_count = 1
    /\ send_success_count = 0
    /\ cancelled = 0
    /\ dequeued = 2
    /\ Len(delivered[c]) = 2
    /\ wpc[c] = "write"

(* C7: once recv has reported closure (None), the writer task has left its *)
(* loop and ended.                                                         *)
C7_EndsOnClosure == \A c \in Chans : sawNone[c] => wpc[c] = "done"

(* C8: an enqueue attempt on a queue whose Receiver is gone drops the      *)
(* message: no queue, counter or registry entry changes, the call returns  *)
(* through the Closed arm, and every producer that is idle afterwards can  *)
(* start a send to any peer.                                               *)
C8_StepClosed ==
  \A p \in Producers :
    (TrySendStep(p) /\ RxClosed(handle[p]))
    => /\ queue' = queue
       /\ enqueued' = enqueued
       /\ outcome' = Logged("closed", req[p])
       /\ handle'[p] = NoChan
       /\ UNCHANGED <<channels, counters, writerVars>>

C8_StillUsable ==
  outcome.kind = "closed"
  => \A p \in Producers, a \in Peers :
       (ppc[p] = "idle" /\ nextId <= MaxMsgs) => ENABLED SendRequest(p, a)

C8_ClosedQueueDrops == [][C8_StepClosed]_vars /\ []C8_StillUsable

(* The stale entry is still in the registry, the message went nowhere, and *)
(* another peer's queue holds a message.                                   *)
C8_Witness ==
  \E c \in Chans :
    /\ outcome.kind = "closed"
    /\ channels[outcome.request.receiver] = c
    /\ RxClosed(c)
    /\ outcome.request.id \notin Range(enqueued[c])
    /\ \E b \in Chans \ {c} : chanAddr[b] # chanAddr[c] /\ Len(queue[b]) > 0

(* C9: a send_request that has got its channel can always make its one     *)
(* enqueue attempt, whatever the writers are doing, and that attempt ends  *)
(* the call; a send_request can always be started by an idle producer.     *)
C9_NeverWaits ==
  \A p \in Producers :
    /\ ppc[p] = "try_send" => ENABLED TrySend(p)
    /\ (ppc[p] = "idle" /\ nextId <= MaxMsgs)
         => \A a \in Peers : ENABLED SendRequest(p, a)
    /\ ppc[p] = "idle" <=> handle[p] = NoChan

(* A call returned (Full arm) while no writer had ever taken a step.       *)
C9_Witness ==
  /\ outcome.kind = "full"
  /\ dequeued = 0
  /\ \A c \in Chans : ~sawNone[c] /\ wpc[c] # "aborted"
  /\ \A p \in Producers : ppc[p] = "idle"

(* This step is a send_ping(a): the peer book is told about a.             *)
PingStep(a) == pingSent'[a] = pingSent[a] + 1

(* C10: send_ping(a) starts exactly one send_request, for a message        *)
(* addressed to a whose payload is Ping(h), h being 0 without a sync layer *)
(* and the sync layer's height otherwise.                                  *)
C10_StepPing ==
  \A a \in Peers :
    PingStep(a)
    => LET h == IF sync = <<>> THEN 0 ELSE sync[1]
           m == [receiver |-> a, payload |-> <<"Ping", h>>, id |-> nextId]
       IN /\ nextId' = nextId + 1
          /\ \/ /\ channels[a] = NoChan
                /\ outcome' = Logged("missing", m)
                /\ UNCHANGED prodVars
             \/ /\ channels[a] # NoChan
                /\ outcome' = outcome
                /\ \E p \in Producers :
                     /\ ppc[p] = "idle"
                     /\ ppc' = [ppc EXCEPT ![p] = "try_send"]
                     /\ req' = [req EXCEPT ![p] = m]
                     /\ handle' = [handle EXCEPT ![p] = channels[a]]

C10_PingCarriesHeight == [][C10_StepPing]_vars

(* A ping from a node without a sync layer sits in its peer's queue with   *)
(* height 0.                                                               *)
C10_Witness ==
  \E c \in Chans :
    /\ sync = NoSync
    /\ Len(queue[c]) > 0
    /\ queue[c][1] = [receiver |-> chanAddr[c], payload |-> <<"Ping", 0>>,
                      id |-> queue[c][1].id]
    /\ pingSent[chanAddr[c]] > 0

(* Channel c's consumer has taken and written everything.                  *)
Drained(c) == wpc[c] = "recv" /\ queue[c] = <<>>

(* C11: in the capacity test, while the consumer has not started, every    *)
(* enqueue attempt on peer 1's queue goes in at the tail as long as fewer  *)
(* than Capacity messages are resident and is dropped from then on, so the *)
(* queue holds the first Capacity messages in send order and the later     *)
(* ones are shed; when the consumer has drained the queue and no write has *)
(* failed, send_success_count is the number of accepted messages, which is *)
(* Capacity once a message has been shed for lack of room.                 *)
C11_StepNoConsumer ==
  \A p \in Producers :
    (TrySendStep(p) /\ wpc[handle[p]] = "none")
    => IF Len(queue[handle[p]]) < Capacity
       THEN queue' = [queue EXCEPT ![handle[p]] = Append(@, req[p])]
       ELSE queue' = queue /\ outcome' = Logged("full", req[p])

C11_Resident ==
  wpc[1] = "none"
  => /\ Ids(queue[1]) = enqueued[1]
     /\ Len(queue[1]) <= Capacity
     /\ outcome.kind = "full"
          => /\ Len(queue[1]) = Capacity
             /\ outcome.request.id \notin Range(Ids(queue[1]))
     /\ send_success_count = 0 /\ send_failure_count = 0

C11_AfterDrain ==
  (Drained(1) /\ send_failure_count = 0)
  => /\ send_success_count = Len(enqueued[1])
     /\ outcome.kind = "full" => send_success_count = Capacity

C11_CapacityScenario ==
  [][C11_StepNoConsumer]_vars /\ []C11_Resident /\ []C11_AfterDrain

(* Capacity + 1 messages were sent to peer 1, the last was shed, and the   *)
(* consumer has since written the Capacity resident ones successfully.     *)
C11_Witness ==
  /\ Drained(1)
  /\ outcome.kind = "full"
  /\ outcome.request.receiver = 1
  /\ Len(enqueued[1]) = Capacity
  /\ outcome.request.id > enqueued[1][Capacity]
  /\ send_success_count = Capacity
  /\ send_failure_count = 0

(* The arms of send_request that drop the request.                         *)
DropKinds == {"full", "closed", "missing"}

(* C12: a send_request that ends in a drop arm (full, closed, no entry)    *)
(* leaves every queue as it was and its request is in no call afterwards   *)
(* (no retry), in no queue and in no writer's hands, now or later; every   *)
(* accepted message is on one channel only, once; every message a writer   *)
(* has been handed was accepted on that channel, and a writer is handed    *)
(* the messages of its channel in the order of acceptance, each once.      *)
C12_StepDrop ==
  (outcome' # outcome /\ outcome'.kind \in DropKinds)
  => /\ queue' = queue /\ enqueued' = enqueued /\ delivered' = delivered
     /\ \A p \in Producers : req'[p].id # outcome'.request.id

C12_StepHandOver ==
  \A c \in Chans :
    delivered'[c] # delivered[c]
    => \E i \in Range(Ids(queue[c])) :
         /\ delivered'[c] = Append(delivered[c], i)
         /\ i \notin Range(delivered[c])
         /\ i \notin Range(Ids(queue'[c]))

C12_Once ==
  /\ \A c \in Chans :
       /\ NoDuplicates(enqueued[c])
       /\ Len(delivered[c]) <= Len(enqueued[c])
       /\ \A i \in 1..Len(delivered[c]) : delivered[c][i] = enqueued[c][i]
       /\ Range(Ids(queue[c])) \subseteq Range(enqueued[c]) \ Range(delivered[c])
       /\ \A d \in Chans \ {c} : Range(enqueued[c]) \cap Range(enqueued[d]) = {}
       /\ \A p \in Producers :
            ppc[p] = "try_send" => req[p].id \notin Range(enqueued[c])
  /\ \A p, q \in Producers :
       (ppc[p] = "try_send" /\ ppc[q] = "try_send" /\ p # q)
       => req[p].id # req[q].id
  /\ outcome.kind \in DropKinds
     => \A c \in Chans :
          /\ outcome.request.id \notin Range(enqueued[c])
          /\ writing[c].id # outcome.request.id

C12_NoRetryNoDuplicate ==
  [][C12_StepDrop /\ C12_StepHandOver]_vars /\ []C12_Once

(* A message for a connected peer was dropped for lack of room and the     *)
(* writer has since been handed everything accepted before and after it.   *)
C12_Witness ==
  \E c \in Chans :
    /\ outcome.kind = "full"
    /\ channels[outcome.request.receiver] = c
    /\ queue[c] = <<>>
    /\ Len(delivered[c]) = Capacity
    /\ delivered[c] = enqueued[c]

(* This step belongs to a send_request or send_ping call: its entry with   *)
(* the registry lookup, or its enqueue attempt and return.                 *)
DispatcherStep ==
  \/ nextId' # nextId
  \/ \E a \in Peers : PingStep(a)
  \/ \E p \in Producers : TrySendStep(p)

(* This step belongs to a writer task: recv returning a message or None,   *)
(* or write_message returning.                                             *)
WriterStep ==
  \/ dequeued' # dequeued
  \/ sawNone' # sawNone
  \/ \E c \in Chans : WriteReturnStep(c)

C14_StepDispatcher == DispatcherStep => UNCHANGED counters

C14_StepWriterOnly ==
  counters' # counters
  => /\ ~DispatcherStep
     /\ \E c \in Chans :
          /\ wpc[c] = "write" /\ writing[c] # NoMsg
          /\ wpc'[c] = "recv" /\ writing'[c] = NoMsg
          /\ \A d \in Chans \ {c} : wpc'[d] = wpc[d]
     /\ send_success_count' + send_failure_count'
          = send_success_count + send_failure_count + 1

C14_CountersOnlyInWriter ==
  [][C14_StepDispatcher /\ C14_StepWriterOnly]_vars

(* All sends are over, one of them dropped and one accepted and taken by   *)
(* the writer, whose write has not returned: both counters are still 0.    *)
C14_Witness ==
  /\ nextId > MaxMsgs
  /\ \A p \in Producers : ppc[p] = "idle"
  /\ outcome.kind \in DropKinds
  /\ dequeued = 1
  /\ WritesInProgress = 1
  /\ send_success_count = 0
  /\ send_failure_count = 0

(* Producer p holds a handle whose registry entry has been removed (or     *)
(* replaced) since its lookup.                                             *)
StaleHandle(p) ==
  ppc[p] = "try_send" /\ channels[req[p].receiver] # handle[p]

(* C15 as stated: when the peer's entry has been removed between a         *)
(* send_request's lookup and its enqueue attempt, the attempt ends in a    *)
(* drop arm and the message is not enqueued.                               *)
C15_StaleReadDrops ==
  [][\A p \in Producers :
       (TrySendStep(p) /\ channels[req[p].receiver] = NoChan)
       => (outcome'.kind \in DropKinds /\ queue' = queue)]_vars

(* C15, amended: an enqueue attempt through a stale handle behaves like    *)
(* any other: it is decided by the state of the queue the handle belongs   *)
(* to.  The message is dropped through the Closed arm when that queue's    *)
(* Receiver is gone and through the Full arm when it holds Capacity        *)
(* messages; otherwise it is enqueued on that queue, whose writer is still *)
(* running.  In every case the attempt can be made at once and ends the    *)
(* call.                                                                   *)
C15_StepStale ==
  \A p \in Producers :
    (TrySendStep(p) /\ StaleHandle(p))
    => /\ ppc'[p] = "idle" /\ handle'[p] = NoChan
       /\ channels' = channels
       /\ IF RxClosed(handle[p])
          THEN outcome' = Logged("closed", req[p]) /\ queue' = queue
          ELSE IF Len(queue[handle[p]]) >= Capacity
          THEN outcome' = Logged("full", req[p]) /\ queue' = queue
          ELSE /\ outcome' = Logged("enqueued", req[p])
               /\ queue' = [queue EXCEPT ![handle[p]] = Append(@, req[p])]
               /\ wpc[handle[p]] \in {"recv", "write"}

C15_StaleNeverStuck ==
  \A p \in Producers : StaleHandle(p) => ENABLED TrySend(p)

C15_StaleReadResolved == [][C15_StepStale]_vars /\ []C15_StaleNeverStuck

(* A send to a peer was enqueued on the queue of the peer's first          *)
(* connection after that connection's entry had been removed: by the time  *)
(* of the enqueue the peer had been connected again and a message had been *)
(* accepted on the new connection's queue.                                 *)
C15_Witness ==
  \E c, d \in Chans :
    /\ c < d
    /\ chanAddr[d] \in Peers
    /\ chanAddr[c] = chanAddr[d]
    /\ channels[chanAddr[d]] = d
    /\ enqueued[d] # <<>>
    /\ outcome.kind = "enqueued"
    /\ outcome.request.id \in Range(enqueued[c])

(* Number of pings for address a the dispatcher has taken a decision on or *)
(* is about to: those accepted on a queue of a, those waiting for their    *)
(* enqueue attempt, and the latest if it was dropped.                      *)
PingsSeen(a) ==
  Cardinality({i \in 1..(nextId - 1) :
     \/ \E c \in Chans : chanAddr[c] = a /\ i \in Range(enqueued[c])
     \/ \E p \in Producers : req[p].id = i /\ req[p].receiver = a
     \/ /\ outcome.kind \in DropKinds
        /\ outcome.request.id = i
        /\ outcome.request.receiver = a})

(* C16: a step that starts a send_ping(a) adds exactly one sending_ping(a) *)
(* notification and none for any other address, whether the registry has   *)
(* an entry for a or not; the enqueue attempt, however it ends, adds none; *)
(* so every ping that reaches its enqueue attempt or is dropped has been   *)
(* notified before.  The attempt itself ends as try_send decides: Closed   *)
(* and Full drop the ping, Ok enqueues it.                                 *)
C16_StepNotify ==
  /\ \A a \in Peers :
       /\ CallStep(a)
          => pingSent' = [pingSent EXCEPT ![a] = pingSent[a] + 1]
       /\ pingSent'[a] # pingSent[a] => CallStep(a)
  /\ \A p \in Producers :
       TrySendStep(p)
       => /\ pingSent' = pingSent
          /\ outcome' = Logged(try_send(handle[p]), req[p])
          /\ req[p].payload[1] = "Ping"
          /\ (enqueued' # enqueued) <=> (try_send(handle[p]) = "enqueued")

C16_NotifiedFirst ==
  \A a \in Peers :
    /\ PingsSeen(a) <= pingSent[a]
    /\ pingSent[a] <= nextId - 1

C16_PingNotifiesOnce == [][C16_StepNotify]_vars /\ []C16_NotifiedFirst

(* A ping to a peer that never had a connection was dropped for want of   *)
(* an entry and the only ping to another peer was dropped on its closed    *)
(* queue; the peer book was told of both.                                  *)
C16_Witness ==
  \E a, b \in Peers :
    /\ \A c \in Chans : chanAddr[c] # a
    /\ pingSent[a] = 1
    /\ pingSent[b] = 1
    /\ outcome.kind = "closed"
    /\ outcome.request.receiver = b
    /\ outcome.request.payload = Ping(CurrentBlockHeight)

(* C17: a send_request for address a holds, between its lookup and its     *)
(* enqueue attempt, the handle of a queue that belongs to a, and its       *)
(* attempt touches that queue only; so every message resident in a queue,  *)
(* and every message a writer task is writing, is addressed to the peer    *)
(* the queue belongs to.                                                   *)
C17_StepRouting ==
  /\ \A a \in Peers : \A p \in Producers :
       (CallStep(a) /\ ppc[p] = "idle" /\ ppc'[p] = "try_send")
       => handle'[p] = channels[a] /\ req'[p].receiver = a
  /\ \A p \in Producers : \A c \in Chans :
       (TrySendStep(p) /\ queue'[c] # queue[c])
       => /\ c = handle[p]
          /\ queue'[c] = Append(queue[c], req[p])
          /\ chanAddr[c] = req[p].receiver

C17_RightQueue ==
  /\ \A p \in Producers :
       ppc[p] = "try_send" => chanAddr[handle[p]] = req[p].receiver
  /\ \A c \in Chans :
       /\ \A i \in 1..Len(queue[c]) : queue[c][i].receiver = chanAddr[c]
       /\ writing[c] # NoMsg => writing[c].receiver = chanAddr[c]

C17_Routing == [][C17_StepRouting]_vars /\ []C17_RightQueue

(* Two peers are connected; a message for one is being written by its      *)
(* writer task while a message for the other waits in the other's queue.   *)
C17_Witness ==
  \E c, d \in Chans :
    /\ chanAddr[c] \in Peers /\ chanAddr[d] \in Peers
    /\ chanAddr[c] # chanAddr[d]
    /\ Len(queue[c]) > 0
    /\ queue[c][1].receiver = chanAddr[c]
    /\ wpc[d] = "write"
    /\ writing[d].receiver = chanAddr[d]

(* C18 as stated: in every state every queue holds at most Capacity        *)
(* messages, and as many as were accepted on it minus those its writer has *)
(* dequeued.                                                               *)
C18_ResidentIsAcceptedMinusDequeued ==
  \A c \in Chans :
    /\ Len(queue[c]) <= Capacity
    /\ Len(queue[c]) + Len(delivered[c]) = Len(enqueued[c])

(* C18, amended: in every state, with any number of send_request calls     *)
(* under way for the same peer, every queue holds at most Capacity         *)
(* messages; as long as the queue's Receiver exists it holds as many as    *)
(* were accepted on it minus those its writer has dequeued, and once the   *)
(* Receiver has been dropped it holds none, the accepted messages not yet  *)
(* dequeued having been discarded with it.                                 *)
C18_BoundedAndAccounted ==
  \A c \in Chans :
    /\ Len(queue[c]) <= Capacity
    /\ Len(delivered[c]) <= Len(enqueued[c])
    /\ IF RxClosed(c)
       THEN Len(queue[c]) = 0
       ELSE Len(queue[c]) = Len(enqueued[c]) - Len(delivered[c])

(* Two overlapping sends to one peer were accepted in the reverse of the   *)
(* order in which they were started; the queue is at capacity and its      *)
(* writer has taken one message.                                           *)
C18_Witness ==
  \E c \in Chans :
    /\ ~RxClosed(c)
    /\ Len(queue[c]) = Capacity
    /\ Len(delivered[c]) = 1
    /\ \E i, j \in 1..Len(enqueued[c]) :
         i < j /\ enqueued[c][i] > enqueued[c][j]

(* Message i was accepted on channel c, has been dequeued and its          *)
(* write_message has returned.                                             *)
Counted(c, i) ==
  /\ i \in Range(delivered[c])
  /\ writing[c].id # i
  /\ ~RxClosed(c)

(* C19: with writer tasks scheduled fairly and every write returning,      *)
(* every message accepted on a queue is eventually dequeued and its write  *)
(* counted, unless the queue's writer task is shut down first; and the     *)
(* writes that have returned have moved the two counters by one each, so   *)
(* that their sum is the number of returned writes.                        *)
C19_EachReturnCountedOnce ==
  send_success_count + send_failure_count
    = dequeued - cancelled - WritesInProgress

C19_AcceptedEventuallyCounted ==
  /\ \A c \in Chans : \A i \in 1..MaxMsgs :
       (i \in Range(enqueued[c])) ~> (Counted(c, i) \/ RxClosed(c))
  /\ []C19_EachReturnCountedOnce

(* Every message of the run was accepted on one queue and its writer,      *)
(* never shut down, has written them all, one write failing.               *)
C19_Witness ==
  \E c \in Chans :
    /\ Len(enqueued[c]) = MaxMsgs
    /\ \A i \in 1..MaxMsgs : Counted(c, i)
    /\ send_success_count = MaxMsgs - 1
    /\ send_failure_count = 1

====
